---- MODULE Spec2Model ----
(***************************************************************************)
(* Audio fingerprinting: the landmark hasher (generate_hashes), the        *)
(* peak extractor (find_peaks), the fingerprint index (the SQLite tables   *)
(* `fingerprints` and `tracks`) and the single-track and batch pipelines   *)
(* (preprocess_audio, fingerprint_audio, parallel_fingerprint).            *)
(*                                                                         *)
(* The specifications share the variables:                                 *)
(*   Spec       the index: tracks are ingested and queries are matched;    *)
(*   SpecMeta   the index together with the metadata table;                *)
(*   SpecConc   two ingest calls and a match on separate connections;      *)
(*   SpecPipe   one pipeline call on an input drawn by PipeInit;           *)
(*   SpecPeaks  find_peaks, then generate_hashes, on a spectrogram drawn   *)
(*              by PeaksInit.                                              *)
(***************************************************************************)
EXTENDS Integers, Sequences, FiniteSets, Bags, TLC

VARIABLES
    fingerprints,   \* the table `fingerprints`: a bag of rows
    tracks,         \* the table `tracks`: a set of rows
    ingested,       \* history: track_id -> the landmark sequences ingested under it
    written,        \* history: track_id -> the arguments of the last metadata call
    lock,           \* SpecConc: the write lock of the database file
    conns,          \* SpecConc: the calls in progress, one connection each
    call,           \* the index call whose result the caller holds (NoCall when none)
    input,          \* SpecPipe: the argument of the pipeline call
    outcome         \* SpecPipe: what the pipeline call returned or raised

vars ==
    <<fingerprints, tracks, ingested, written, lock, conns, call, input,
      outcome>>

----------------------------------------------------------------------------
(* Bounds of the model.                                                    *)

MaxBin == 0         \* frequency bins 0..MaxBin
MaxThreshold == 3   \* thresholds 1..MaxThreshold
MaxSamples == 1     \* sample buffers of 0..MaxSamples samples
MaxFiles == 2       \* files per parallel_fingerprint call
MaxCells == 7       \* cells (bins times frames) of a spectrogram
MaxGridFrames == 2  \* frames of a spectrogram
MaxCap == 2         \* max_peaks 1..MaxCap, and the default
MaxFanOut == 1      \* fan_out 1..MaxFanOut, and the default

(* Program constants.                                                      *)

DefaultFanOut == 5  \* generate_hashes(peaks, fan_out=5)
DefaultMaxPeaks == 100   \* RobustAudioFingerprinter(max_peaks=100)
NeighborhoodRadius == 5  \* frame[max(0, f-5):min(len(frame), f+6)]
NoiseFloor == -40        \* frame[f] > -40

(* track ids, listed in ascending order of SQLite's BINARY collation       *)
TrackIds == <<"a", "b">>

TrackIdSet == {TrackIds[i] : i \in 1..Len(TrackIds)}

TrackRank(t) == CHOOSE i \in 1..Len(TrackIds) : TrackIds[i] = t

None == "None"

Abs(x) == IF x < 0 THEN -x ELSE x

Min(x, y) == IF x <= y THEN x ELSE y

Max(x, y) == IF x >= y THEN x ELSE y

Range(s) == {s[i] : i \in 1..Len(s)}

RECURSIVE Gcd(_, _)
Gcd(x, y) == IF y = 0 THEN x ELSE Gcd(y, x % y)

----------------------------------------------------------------------------
(* Landmarks and the landmark hasher.                                      *)

(* A landmark is (time_index, frequency_index, magnitude); generate_hashes *)
(* reads the first two components only.                                    *)
Peak(t, f) == <<t, f, 0>>

(* the time frames and the lengths of the landmark sequences of the model  *)
Frames == {0, 1, 2}

Lengths == {0, 1, 2, 3}

PeakSet == {Peak(t, f) : t \in Frames, f \in 0..MaxBin}

(* Landmark sequences as find_peaks emits them: frame-major, one entry per *)
(* (frame, bin).                                                           *)
FrameMajor(p) ==
    \A i, j \in 1..Len(p) :
        i < j => /\ p[i][1] <= p[j][1]
                 /\ <<p[i][1], p[i][2]>> # <<p[j][1], p[j][2]>>

PeakSeqs ==
    UNION {{p \in [1..n -> PeakSet] : FrameMajor(p)} : n \in Lengths}

(* int(sha256("f1|f2|dt").hexdigest(), 16) % 2**32 for f1, f2 in 0..7 and  *)
(* dt in 0..4, as <<high 16 bits, low 16 bits>> of the 32-bit value.       *)
Sha256Table ==
    <<
     <<
       <<<<16366, 3063>>, <<28906, 20159>>, <<12693, 58680>>, <<30632, 61014>>, <<57087, 25067>>>>,
       <<<<33570, 62888>>, <<31966, 35229>>, <<58742, 45385>>, <<19829, 32427>>, <<35652, 60316>>>>,
       <<<<57386, 13414>>, <<35213, 18887>>, <<54885, 23818>>, <<21795, 55211>>, <<44266, 59857>>>>,
       <<<<51717, 23748>>, <<9006, 63898>>, <<1087, 64250>>, <<12292, 44770>>, <<50578, 48421>>>>,
       <<<<39808, 55802>>, <<57456, 49305>>, <<10410, 11738>>, <<53402, 3186>>, <<44754, 32350>>>>,
       <<<<37025, 32021>>, <<41055, 56080>>, <<35322, 34523>>, <<17402, 56502>>, <<42348, 33760>>>>,
       <<<<38104, 22290>>, <<40542, 9435>>, <<17878, 49209>>, <<49496, 34306>>, <<31986, 4293>>>>,
       <<<<26570, 49169>>, <<26829, 40336>>, <<2961, 42364>>, <<35608, 39958>>, <<17518, 40916>>>>
     >>,
     <<
       <<<<44763, 33981>>, <<54837, 31714>>, <<4219, 40682>>, <<16822, 50713>>, <<45777, 59884>>>>,
       <<<<28945, 49984>>, <<18227, 56628>>, <<29463, 135>>, <<35033, 33252>>, <<51776, 41896>>>>,
       <<<<64000, 25424>>, <<25107, 7671>>, <<62845, 64922>>, <<8982, 35851>>, <<19178, 44885>>>>,
       <<<<17487, 28818>>, <<46388, 16462>>, <<51126, 37746>>, <<437, 8880>>, <<61600, 31008>>>>,
       <<<<9091, 39390>>, <<14485, 25102>>, <<57304, 9156>>, <<38900, 20771>>, <<25282, 38811>>>>,
       <<<<21145, 54661>>, <<45937, 50461>>, <<61398, 25023>>, <<27743, 35234>>, <<65246, 59457>>>>,
       <<<<10230, 22188>>, <<14352, 22106>>, <<19346, 40404>>, <<36567, 63396>>, <<63346, 37879>>>>,
       <<<<16481, 24294>>, <<28941, 9082>>, <<8218, 50623>>, <<35246, 16420>>, <<46320, 28065>>>>
     >>,
     <<
       <<<<48026, 42156>>, <<33410, 17883>>, <<58156, 27532>>, <<49198, 48435>>, <<23225, 7679>>>>,
       <<<<24566, 26390>>, <<33956, 27177>>, <<51278, 4870>>, <<36796, 34515>>, <<62343, 11424>>>>,
       <<<<8504, 24068>>, <<9457, 8329>>, <<19953, 59232>>, <<4700, 1830>>, <<10481, 18134>>>>,
       <<<<42820, 26165>>, <<1436, 37669>>, <<37805, 19567>>, <<19596, 33714>>, <<57607, 1119>>>>,
       <<<<62151, 21634>>, <<48718, 46617>>, <<15695, 59908>>, <<53540, 54339>>, <<18931, 9910>>>>,
       <<<<59681, 54048>>, <<49122, 65321>>, <<48795, 50883>>, <<58655, 6953>>, <<23690, 45572>>>>,
       <<<<38898, 44839>>, <<5358, 29200>>, <<6230, 40801>>, <<44390, 32658>>, <<38831, 14625>>>>,
       <<<<12509, 47563>>, <<61328, 7220>>, <<58359, 12426>>, <<1207, 46900>>, <<20342, 12362>>>>
     >>,
     <<
       <<<<1745, 51615>>, <<25163, 39750>>, <<29811, 19009>>, <<34029, 62945>>, <<58304, 21677>>>>,
       <<<<12812, 26801>>, <<56931, 2285>>, <<35567, 5136>>, <<64916, 323>>, <<11578, 47941>>>>,
       <<<<2427, 20357>>, <<35296, 60489>>, <<1459, 60644>>, <<62097, 59236>>, <<45580, 34270>>>>,
       <<<<46087, 34724>>, <<38168, 38467>>, <<47340, 51538>>, <<62040, 9770>>, <<60614, 58559>>>>,
       <<<<4362, 23972>>, <<7518, 28171>>, <<62226, 25196>>, <<27511, 25385>>, <<64058, 22488>>>>,
       <<<<51679, 32137>>, <<20882, 21746>>, <<4454, 16566>>, <<29370, 57382>>, <<48482, 37802>>>>,
       <<<<24602, 56518>>, <<26272, 35599>>, <<1326, 25292>>, <<40843, 45124>>, <<57008, 42434>>>>,
       <<<<10656, 20056>>, <<13093, 62484>>, <<20934, 51713>>, <<3369, 60109>>, <<35410, 23684>>>>
     >>,
     <<
       <<<<50719, 38032>>, <<23978, 51168>>, <<54803, 28913>>, <<13051, 14868>>, <<38763, 60291>>>>,
       <<<<33220, 7400>>, <<8164, 48062>>, <<9303, 52938>>, <<8930, 3356>>, <<59946, 1287>>>>,
       <<<<60720, 21144>>, <<39806, 54743>>, <<61314, 11793>>, <<34693, 31163>>, <<8367, 23514>>>>,
       <<<<10692, 59075>>, <<24309, 37327>>, <<35915, 60386>>, <<13220, 3509>>, <<57076, 21359>>>>,
       <<<<35160, 2878>>, <<59112, 38221>>, <<21936, 31489>>, <<12795, 46464>>, <<40232, 5662>>>>,
       <<<<38005, 43948>>, <<27651, 14839>>, <<19992, 32941>>, <<403, 13907>>, <<54337, 13481>>>>,
       <<<<4499, 27857>>, <<15227, 45766>>, <<1608, 33098>>, <<15243, 32574>>, <<13026, 43212>>>>,
       <<<<9978, 6436>>, <<12749, 62111>>, <<64922, 49187>>, <<9386, 60028>>, <<18181, 12970>>>>
     >>,
     <<
       <<<<13916, 48714>>, <<20194, 41016>>, <<55075, 5061>>, <<13027, 62953>>, <<39625, 4386>>>>,
       <<<<11279, 25771>>, <<51364, 20814>>, <<40930, 35812>>, <<21126, 50367>>, <<3833, 60665>>>>,
       <<<<19488, 43891>>, <<48459, 28062>>, <<60987, 63484>>, <<37564, 47910>>, <<60327, 50392>>>>,
       <<<<39496, 16948>>, <<45458, 18660>>, <<32350, 41643>>, <<19317, 34752>>, <<7091, 3495>>>>,
       <<<<63932, 25160>>, <<28716, 16799>>, <<740, 21851>>, <<29620, 8786>>, <<19254, 42271>>>>,
       <<<<57707, 44394>>, <<46926, 2842>>, <<16539, 43441>>, <<20745, 51428>>, <<65367, 12930>>>>,
       <<<<18613, 29537>>, <<35074, 59832>>, <<65400, 18651>>, <<9579, 34541>>, <<7190, 30582>>>>,
       <<<<39553, 19685>>, <<34452, 27540>>, <<49596, 18493>>, <<45294, 15401>>, <<19645, 63966>>>>
     >>,
     <<
       <<<<29681, 351>>, <<45223, 37429>>, <<30558, 57000>>, <<32260, 65135>>, <<973, 1004>>>>,
       <<<<16784, 47055>>, <<28005, 31673>>, <<35620, 48882>>, <<43683, 11006>>, <<3761, 6590>>>>,
       <<<<61339, 28491>>, <<6839, 38658>>, <<52534, 22197>>, <<30591, 17139>>, <<16196, 53669>>>>,
       <<<<58613, 64560>>, <<26652, 48565>>, <<27044, 17860>>, <<2844, 4950>>, <<30762, 53804>>>>,
       <<<<21399, 25252>>, <<34321, 9447>>, <<9874, 29701>>, <<48151, 57710>>, <<39506, 19601>>>>,
       <<<<59895, 53594>>, <<41636, 63112>>, <<41706, 59482>>, <<19571, 10119>>, <<30311, 39756>>>>,
       <<<<4342, 52707>>, <<55738, 33892>>, <<26378, 5712>>, <<23049, 43609>>, <<45176, 20533>>>>,
       <<<<21166, 54795>>, <<40008, 1768>>, <<28205, 4346>>, <<7015, 28380>>, <<63730, 30055>>>>
     >>,
     <<
       <<<<5878, 48874>>, <<24562, 47999>>, <<65464, 2571>>, <<32948, 24153>>, <<52362, 62195>>>>,
       <<<<32640, 38133>>, <<45287, 46879>>, <<38383, 36127>>, <<21033, 56073>>, <<57302, 7870>>>>,
       <<<<46136, 38899>>, <<32856, 32483>>, <<44095, 20789>>, <<10074, 23798>>, <<27869, 1043>>>>,
       <<<<39431, 51002>>, <<38012, 58242>>, <<46038, 53869>>, <<59068, 9951>>, <<32375, 309>>>>,
       <<<<16700, 32585>>, <<53724, 40318>>, <<44443, 57875>>, <<34708, 59866>>, <<40816, 5707>>>>,
       <<<<24449, 49227>>, <<36010, 63552>>, <<25917, 60986>>, <<40672, 40010>>, <<31156, 60399>>>>,
       <<<<58423, 56774>>, <<16841, 22341>>, <<14614, 1676>>, <<59573, 4586>>, <<8996, 53497>>>>,
       <<<<6214, 52708>>, <<35027, 62045>>, <<11439, 29660>>, <<51400, 45815>>, <<35074, 32279>>>>
     >>
    >>

(* the same for time_diff in -1..-4                                        *)
Sha256TableNegative ==
    <<
     <<
       <<<<27180, 2229>>, <<49401, 46389>>, <<42914, 22667>>, <<8286, 7433>>>>,
       <<<<27572, 56973>>, <<60408, 16635>>, <<44338, 33263>>, <<44459, 48956>>>>,
       <<<<43935, 35157>>, <<53741, 30297>>, <<5640, 64279>>, <<64187, 37759>>>>,
       <<<<58841, 16218>>, <<26415, 45361>>, <<31391, 12926>>, <<17278, 62772>>>>,
       <<<<29128, 1896>>, <<5609, 44085>>, <<38143, 48049>>, <<52967, 3775>>>>,
       <<<<57990, 13025>>, <<20297, 64399>>, <<52620, 42365>>, <<4350, 43546>>>>,
       <<<<57492, 22980>>, <<1635, 14338>>, <<32780, 39456>>, <<57945, 23237>>>>,
       <<<<37800, 39261>>, <<46637, 42628>>, <<52586, 27239>>, <<57985, 50218>>>>
     >>,
     <<
       <<<<47725, 17602>>, <<20062, 27908>>, <<47813, 33423>>, <<40195, 13435>>>>,
       <<<<24916, 62747>>, <<61601, 42240>>, <<31869, 52090>>, <<23611, 46908>>>>,
       <<<<7253, 3736>>, <<34215, 42987>>, <<64869, 64316>>, <<47535, 23455>>>>,
       <<<<52084, 64177>>, <<7139, 28426>>, <<43384, 31691>>, <<57086, 181>>>>,
       <<<<524, 23545>>, <<52766, 60192>>, <<56369, 6212>>, <<6922, 64858>>>>,
       <<<<56913, 3418>>, <<26185, 20104>>, <<13819, 1288>>, <<25952, 49130>>>>,
       <<<<52224, 27311>>, <<28659, 22651>>, <<26635, 46857>>, <<13775, 38292>>>>,
       <<<<52376, 38147>>, <<57786, 61295>>, <<36256, 53951>>, <<47237, 11301>>>>
     >>,
     <<
       <<<<21675, 23646>>, <<41869, 5662>>, <<1885, 7393>>, <<61306, 18232>>>>,
       <<<<3473, 12164>>, <<21237, 63989>>, <<20559, 8123>>, <<32628, 12212>>>>,
       <<<<29350, 16521>>, <<126, 54983>>, <<46910, 43238>>, <<57276, 63726>>>>,
       <<<<25965, 50131>>, <<35092, 46895>>, <<26998, 24029>>, <<58107, 45946>>>>,
       <<<<35380, 6243>>, <<35584, 58885>>, <<16047, 50270>>, <<21732, 5284>>>>,
       <<<<59975, 61118>>, <<61673, 53223>>, <<27662, 24900>>, <<6560, 32115>>>>,
       <<<<37880, 3587>>, <<64046, 20134>>, <<45736, 64916>>, <<16860, 57963>>>>,
       <<<<61720, 7716>>, <<6208, 19381>>, <<62119, 48249>>, <<26271, 7942>>>>
     >>,
     <<
       <<<<5801, 16004>>, <<54767, 56746>>, <<44028, 31620>>, <<37920, 24882>>>>,
       <<<<15494, 11097>>, <<54134, 33493>>, <<41859, 7290>>, <<56535, 52588>>>>,
       <<<<40244, 3032>>, <<33822, 51615>>, <<49297, 22822>>, <<53405, 39265>>>>,
       <<<<57272, 47913>>, <<12297, 50555>>, <<63938, 56174>>, <<52745, 47746>>>>,
       <<<<32219, 13336>>, <<40560, 15213>>, <<32926, 12381>>, <<41113, 49592>>>>,
       <<<<51584, 53109>>, <<44795, 44245>>, <<37404, 22927>>, <<11563, 23575>>>>,
       <<<<40455, 20931>>, <<44872, 61217>>, <<37530, 37094>>, <<8674, 57932>>>>,
       <<<<42777, 1119>>, <<27390, 39398>>, <<63278, 44513>>, <<64479, 39525>>>>
     >>,
     <<
       <<<<22362, 22130>>, <<34736, 13595>>, <<31031, 7873>>, <<37153, 53420>>>>,
       <<<<43451, 40554>>, <<2856, 43817>>, <<49629, 54293>>, <<20753, 58220>>>>,
       <<<<20057, 65321>>, <<22566, 27744>>, <<3051, 60773>>, <<59917, 15304>>>>,
       <<<<41638, 56461>>, <<16412, 36109>>, <<26828, 41033>>, <<4563, 61818>>>>,
       <<<<13769, 9439>>, <<27581, 53354>>, <<19075, 9995>>, <<4747, 65199>>>>,
       <<<<34085, 44660>>, <<20981, 26676>>, <<11414, 15990>>, <<22822, 3900>>>>,
       <<<<23001, 46698>>, <<38623, 36992>>, <<53028, 156>>, <<4789, 31278>>>>,
       <<<<57120, 4809>>, <<14650, 22396>>, <<19529, 15457>>, <<58611, 56223>>>>
     >>,
     <<
       <<<<21818, 44741>>, <<54916, 45921>>, <<46431, 37920>>, <<8160, 58486>>>>,
       <<<<2144, 34316>>, <<22491, 45983>>, <<48147, 57252>>, <<1723, 43299>>>>,
       <<<<51375, 18429>>, <<37157, 28659>>, <<44433, 37545>>, <<18778, 48146>>>>,
       <<<<48504, 12204>>, <<4926, 17945>>, <<15647, 37311>>, <<13146, 49171>>>>,
       <<<<56481, 19007>>, <<59450, 43209>>, <<44367, 40521>>, <<31988, 12652>>>>,
       <<<<40164, 60513>>, <<13740, 15969>>, <<25787, 29566>>, <<34254, 6464>>>>,
       <<<<51513, 3265>>, <<37219, 32526>>, <<62100, 55194>>, <<35542, 1016>>>>,
       <<<<41791, 23127>>, <<59866, 61921>>, <<47703, 32337>>, <<63173, 4982>>>>
     >>,
     <<
       <<<<31655, 3601>>, <<51725, 58510>>, <<53497, 18875>>, <<63299, 32275>>>>,
       <<<<50909, 8661>>, <<1132, 46902>>, <<46462, 22752>>, <<5370, 18809>>>>,
       <<<<20919, 18826>>, <<9863, 60252>>, <<14590, 46917>>, <<5165, 41968>>>>,
       <<<<26746, 16494>>, <<32415, 9666>>, <<52417, 56512>>, <<46794, 7140>>>>,
       <<<<17716, 19484>>, <<14371, 32206>>, <<46983, 454>>, <<35111, 7806>>>>,
       <<<<23479, 17936>>, <<56954, 48578>>, <<54861, 34335>>, <<40339, 18438>>>>,
       <<<<52992, 42874>>, <<51186, 48667>>, <<1622, 18662>>, <<26244, 10635>>>>,
       <<<<11073, 42391>>, <<64483, 39905>>, <<53769, 35919>>, <<14607, 45402>>>>
     >>,
     <<
       <<<<3783, 63125>>, <<2271, 35276>>, <<37468, 31550>>, <<61868, 54953>>>>,
       <<<<12055, 10401>>, <<24734, 14326>>, <<36163, 25104>>, <<44194, 18356>>>>,
       <<<<38750, 44103>>, <<28293, 9464>>, <<55915, 44355>>, <<46894, 34738>>>>,
       <<<<49529, 55645>>, <<48487, 64546>>, <<2209, 34413>>, <<9140, 41922>>>>,
       <<<<53222, 38768>>, <<29091, 18946>>, <<9557, 19625>>, <<625, 2534>>>>,
       <<<<40118, 7403>>, <<29829, 46738>>, <<47118, 59057>>, <<35621, 9178>>>>,
       <<<<25821, 2368>>, <<1625, 3008>>, <<1050, 4408>>, <<51039, 57789>>>>,
       <<<<26290, 2013>>, <<20840, 25895>>, <<53161, 40543>>, <<26650, 25916>>>>
     >>
    >>

Sha256Mod32(hash_input) ==
    IF hash_input[3] >= 0
    THEN Sha256Table[hash_input[1] + 1][hash_input[2] + 1][hash_input[3] + 1]
    ELSE Sha256TableNegative[hash_input[1] + 1][hash_input[2] + 1][-hash_input[3]]

(* A plausible slip: the absolute frame of the target instead of the       *)
(* difference of the two frames.                                           *)
HashInputAbsolute(anchor, target) == <<anchor[2], target[2], target[1]>>

(* hash_input = f"{freq1}|{freq2}|{time_diff}"                              *)
HashInput(anchor, target) == <<anchor[2], target[2], target[1] - anchor[1]>>

MakeFingerprint(anchor, target) ==
    [hash_value     |-> Sha256Mod32(HashInput(anchor, target)),
     track_id       |-> None,
     time_offset    |-> anchor[1],
     frequency_pair |-> <<anchor[2], target[2]>>]

(* A plausible slip: range(i + 1, min(i + fan_out, len(peaks))).           *)
TargetLoopShort(peaks, fan_out, i) ==
    [k \in 1..(Min(i + fan_out - 1, Len(peaks)) - i) |->
        MakeFingerprint(peaks[i], peaks[i + k])]

(* the targets of the anchor at (1-based) index i:                         *)
(* for j in range(i + 1, min(i + fan_out + 1, len(peaks)))                 *)
TargetLoop(peaks, fan_out, i) ==
    [k \in 1..(Min(i + fan_out, Len(peaks)) - i) |->
        MakeFingerprint(peaks[i], peaks[i + k])]

RECURSIVE AnchorLoop(_, _, _)
AnchorLoop(peaks, fan_out, i) ==
    IF i > Len(peaks) THEN <<>>
    ELSE TargetLoop(peaks, fan_out, i) \o AnchorLoop(peaks, fan_out, i + 1)

generate_hashes(peaks, fan_out) == AnchorLoop(peaks, fan_out, 1)

----------------------------------------------------------------------------
(* The peak extractor.                                                     *)

(* A spectrogram is the sequence of its frames (spectrogram[:, t]), a      *)
(* frame the sequence of the magnitudes (dB) of its bins; bin f of the     *)
(* code is element f + 1.                                                  *)
Levels == {NoiseFloor, NoiseFloor + 10, NoiseFloor + 20}

Spectrograms ==
    UNION {[1..nf -> [1..nb -> Levels]] :
              <<nf, nb>> \in {x \in (0..MaxGridFrames) \X (1..MaxCells) :
                                 x[1] * x[2] <= MaxCells}}

RECURSIVE SeqMax(_)
SeqMax(s) == IF Len(s) = 1 THEN s[1] ELSE Max(s[1], SeqMax(Tail(s)))

(* frame[max(0, f-5):min(len(frame), f+6)]                                 *)
Neighborhood(frame, f) ==
    SubSeq(frame, Max(0, f - NeighborhoodRadius) + 1,
                  Min(Len(frame), f + NeighborhoodRadius + 1))

(* is_peak: cleared when frame[f] != max(neighborhood)                     *)
IsPeak(frame, f) ==
    ~(Len(Neighborhood(frame, f)) > 0
        /\ frame[f + 1] # SeqMax(Neighborhood(frame, f)))

(* if is_peak and frame[f] > -40                                           *)
IsCandidate(frame, f) == IsPeak(frame, f) /\ frame[f + 1] > NoiseFloor

(* local_peaks: (f, frame[f]) of the candidates, for f in range(len(frame)) *)
RECURSIVE LocalPeaks(_, _)
LocalPeaks(frame, f) ==
    IF f >= Len(frame) THEN <<>>
    ELSE (IF IsCandidate(frame, f) THEN <<<<f, frame[f + 1]>>>> ELSE <<>>)
         \o LocalPeaks(frame, f + 1)

(* A plausible slip: a sort that puts an entry in front of its equals.     *)
InsertBeforeEquals(sorted, x) ==
    LET k == Cardinality({i \in 1..Len(sorted) : sorted[i][2] > x[2]})
    IN  SubSeq(sorted, 1, k) \o <<x>> \o SubSeq(sorted, k + 1, Len(sorted))

(* One step of the stable sort by descending magnitude: x goes behind      *)
(* every entry whose magnitude is not smaller.                             *)
InsertByMagnitude(sorted, x) ==
    LET k == Cardinality({i \in 1..Len(sorted) : sorted[i][2] >= x[2]})
    IN  SubSeq(sorted, 1, k) \o <<x>> \o SubSeq(sorted, k + 1, Len(sorted))

RECURSIVE SortPeaksLoop(_, _)
SortPeaksLoop(sorted, rest) ==
    IF rest = <<>> THEN sorted
    ELSE SortPeaksLoop(InsertByMagnitude(sorted, Head(rest)), Tail(rest))

(* local_peaks.sort(key=lambda x: x[1], reverse=True)                      *)
SortByMagnitude(local_peaks) == SortPeaksLoop(<<>>, local_peaks)

(* A plausible slip: the slice taken from the other end.                   *)
TruncateTail(local_peaks, max_peaks) ==
    SubSeq(local_peaks, Max(1, Len(local_peaks) - max_peaks + 1),
           Len(local_peaks))

(* local_peaks[:self.max_peaks]                                            *)
Truncate(local_peaks, max_peaks) ==
    SubSeq(local_peaks, 1, Min(max_peaks, Len(local_peaks)))

(* the landmarks of frame t (0-based): peaks.append((t, freq, mag))        *)
FramePeaks(spectrogram, t, max_peaks) ==
    LET kept == Truncate(SortByMagnitude(LocalPeaks(spectrogram[t + 1], 0)),
                         max_peaks)
    IN  [k \in 1..Len(kept) |-> <<t, kept[k][1], kept[k][2]>>]

(* A plausible slip: the landmarks of a frame put in front of those of    *)
(* the frames before it.                                                   *)
RECURSIVE FrameLoopBackwards(_, _, _)
FrameLoopBackwards(spectrogram, t, max_peaks) ==
    IF t >= Len(spectrogram) THEN <<>>
    ELSE FrameLoopBackwards(spectrogram, t + 1, max_peaks)
         \o FramePeaks(spectrogram, t, max_peaks)

(* for t in range(spectrogram.shape[1])                                    *)
RECURSIVE FrameLoop(_, _, _)
FrameLoop(spectrogram, t, max_peaks) ==
    IF t >= Len(spectrogram) THEN <<>>
    ELSE FramePeaks(spectrogram, t, max_peaks)
         \o FrameLoop(spectrogram, t + 1, max_peaks)

find_peaks(spectrogram, max_peaks) == FrameLoop(spectrogram, 0, max_peaks)

----------------------------------------------------------------------------
(* The fingerprint index.                                                  *)

Row(track_id, fp) ==
    [hash_value  |-> fp.hash_value,
     track_id    |-> track_id,
     time_offset |-> fp.time_offset,
     freq1       |-> fp.frequency_pair[1],
     freq2       |-> fp.frequency_pair[2]]

(* PRIMARY KEY (hash_value, track_id, time_offset)                         *)
PrimaryKey(row) == <<row.hash_value, row.track_id, row.time_offset>>

(* A plausible slip: a plain INSERT into a table without the key.          *)
InsertAlways(table, row) == table (+) SetToBag({row})

(* INSERT OR IGNORE: a row whose key is already stored is dropped.         *)
InsertOrIgnore(table, row) ==
    IF \E r \in BagToSet(table) : PrimaryKey(r) = PrimaryKey(row)
    THEN table
    ELSE table (+) SetToBag({row})

RECURSIVE InsertTrack(_, _, _)
InsertTrack(table, track_id, fps) ==
    IF fps = <<>> THEN table
    ELSE InsertTrack(InsertOrIgnore(table, Row(track_id, Head(fps))),
                     track_id, Tail(fps))

(* fingerprints_dict is a sequence of <<track_id, fingerprints>> items in  *)
(* the dictionary's order.                                                 *)
RECURSIVE insert_fingerprints(_, _)
insert_fingerprints(table, fingerprints_dict) ==
    IF fingerprints_dict = <<>> THEN table
    ELSE insert_fingerprints(
             InsertTrack(table, Head(fingerprints_dict)[1],
                         Head(fingerprints_dict)[2]),
             Tail(fingerprints_dict))

(* The lookup runs on the primary key's index, so the rows of one hash     *)
(* come back ordered by (track_id, time_offset).                           *)
RowBefore(r, s) ==
    \/ TrackRank(r.track_id) < TrackRank(s.track_id)
    \/ /\ r.track_id = s.track_id
       /\ r.time_offset < s.time_offset

RECURSIVE IndexOrder(_)
IndexOrder(S) ==
    IF S = {} THEN <<>>
    ELSE LET r == CHOOSE x \in S : \A y \in S \ {x} : ~RowBefore(y, x)
         IN  <<r>> \o IndexOrder(S \ {r})

RECURSIVE Copies(_, _)
Copies(x, n) == IF n = 0 THEN <<>> ELSE <<x>> \o Copies(x, n - 1)

RECURSIVE Occurrences(_, _)
Occurrences(table, rows) ==
    IF rows = <<>> THEN <<>>
    ELSE Copies(<<Head(rows).track_id, Head(rows).time_offset>>,
                CopiesIn(Head(rows), table))
         \o Occurrences(table, Tail(rows))

(* A plausible slip: fetchone() in place of fetchall().                    *)
LookupFirst(table, hash_value) ==
    LET rows == Occurrences(table,
                    IndexOrder({r \in BagToSet(table) : r.hash_value = hash_value}))
    IN  SubSeq(rows, 1, Min(1, Len(rows)))

(* SELECT track_id, time_offset FROM fingerprints WHERE hash_value = ?     *)
Lookup(table, hash_value) ==
    Occurrences(table,
        IndexOrder({r \in BagToSet(table) : r.hash_value = hash_value}))

(* track_matches is a dict: a sequence of entries in insertion order.      *)
HasTrack(track_matches, track_id) ==
    \E k \in 1..Len(track_matches) : track_matches[k].track_id = track_id

AppendDiff(track_matches, track_id, time_diff) ==
    IF HasTrack(track_matches, track_id)
    THEN [k \in 1..Len(track_matches) |->
            IF track_matches[k].track_id = track_id
            THEN [track_matches[k] EXCEPT !.time_diffs = Append(@, time_diff)]
            ELSE track_matches[k]]
    ELSE Append(track_matches,
                [track_id |-> track_id, time_diffs |-> <<time_diff>>])

(* A plausible slip: the signed difference.                                *)
TimeDiffSigned(fp, db_time_offset) == fp.time_offset - db_time_offset

(* time_diff = abs(fp.time_offset - db_time_offset)                        *)
TimeDiff(fp, db_time_offset) == Abs(fp.time_offset - db_time_offset)

RECURSIVE FetchLoop(_, _, _)
FetchLoop(track_matches, fp, rows) ==
    IF rows = <<>> THEN track_matches
    ELSE FetchLoop(AppendDiff(track_matches, Head(rows)[1],
                              TimeDiff(fp, Head(rows)[2])),
                   fp, Tail(rows))

RECURSIVE QueryLoop(_, _, _)
QueryLoop(table, track_matches, sample_fingerprints) ==
    IF sample_fingerprints = <<>> THEN track_matches
    ELSE QueryLoop(table,
                   FetchLoop(track_matches, Head(sample_fingerprints),
                             Lookup(table, Head(sample_fingerprints).hash_value)),
                   Tail(sample_fingerprints))

TrackMatches(table, sample_fingerprints) ==
    QueryLoop(table, <<>>, sample_fingerprints)

(* A quotient of two integers, kept exact: the reduced fraction.           *)
Quotient(n, d) == [num |-> n \div Gcd(n, d), den |-> d \div Gcd(n, d)]

QLess(x, y) == x.num * y.den < y.num * x.den

(* A plausible slip: guarding the division by adding one to the divisor.   *)
ConfidencePlusOne(time_diffs) ==
    Quotient(Len(time_diffs), 1 + Cardinality(Range(time_diffs)))

(* confidence = total_matches / max(1, unique_matches)                     *)
Confidence(time_diffs) ==
    Quotient(Len(time_diffs), Max(1, Cardinality(Range(time_diffs))))

(* A plausible slip: a strict comparison.                                  *)
ReportedStrict(time_diffs, threshold) == Len(time_diffs) > threshold

(* if total_matches >= threshold                                           *)
Reported(time_diffs, threshold) == Len(time_diffs) >= threshold

RECURSIVE MatchResults(_, _)
MatchResults(track_matches, threshold) ==
    IF track_matches = <<>> THEN <<>>
    ELSE (IF Reported(Head(track_matches).time_diffs, threshold)
          THEN <<[track_id   |-> Head(track_matches).track_id,
                  confidence |-> Confidence(Head(track_matches).time_diffs)]>>
          ELSE <<>>)
         \o MatchResults(Tail(track_matches), threshold)

(* A plausible slip: ascending order (reverse=True left out).              *)
InsertAscending(sorted, x) ==
    LET k == Cardinality({i \in 1..Len(sorted) :
                            ~QLess(x.confidence, sorted[i].confidence)})
    IN  SubSeq(sorted, 1, k) \o <<x>> \o SubSeq(sorted, k + 1, Len(sorted))

(* One step of the stable sort by descending confidence: x goes behind     *)
(* every element whose confidence is not smaller.                          *)
InsertSorted(sorted, x) ==
    LET k == Cardinality({i \in 1..Len(sorted) :
                            ~QLess(sorted[i].confidence, x.confidence)})
    IN  SubSeq(sorted, 1, k) \o <<x>> \o SubSeq(sorted, k + 1, Len(sorted))

RECURSIVE SortLoop(_, _)
SortLoop(sorted, rest) ==
    IF rest = <<>> THEN sorted
    ELSE SortLoop(InsertSorted(sorted, Head(rest)), Tail(rest))

(* sorted(match_results, key=lambda x: x[1], reverse=True)                 *)
SortedByConfidence(match_results) == SortLoop(<<>>, match_results)

match_fingerprint(table, sample_fingerprints, threshold) ==
    SortedByConfidence(
        MatchResults(TrackMatches(table, sample_fingerprints), threshold))

(* The table `tracks`: rows (track_id, filename, artist, album, duration)  *)
(* with PRIMARY KEY track_id.                                              *)
Columns == <<"track_id", "filename", "artist", "album", "duration">>

Filenames == {"x.mp3", "y.mp3"}

Artists == {None, "r"}

Albums == {None}

Durations == {None, "180.0"}

(* A plausible slip: an upsert that keeps the stored value of a column     *)
(* whose new value is NULL.                                                *)
InsertOrReplaceKeeping(table, row) ==
    LET old == {r \in table : r[1] = row[1]}
        merged == IF old = {} THEN row
                  ELSE LET o == CHOOSE r \in old : TRUE
                       IN  [k \in 1..Len(row) |->
                               IF row[k] = None THEN o[k] ELSE row[k]]
    IN  {r \in table : r[1] # row[1]} \cup {merged}

(* INSERT OR REPLACE: the stored row with the same track_id is deleted and *)
(* the new row is inserted.                                                *)
InsertOrReplace(table, row) ==
    {r \in table : r[1] # row[1]} \cup {row}

insert_track_metadata(table, track_id, filename, artist, album, duration) ==
    InsertOrReplace(table, <<track_id, filename, artist, album, duration>>)

(* dict(zip(columns, result)) if result else {}; a dict is the sequence of *)
(* its items                                                               *)
get_track_metadata(table, track_id) ==
    LET found == {r \in table : r[1] = track_id}
    IN  IF found = {} THEN <<>>
        ELSE LET result == CHOOSE r \in found : TRUE
             IN  [k \in 1..Len(Columns) |-> <<Columns[k], result[k]>>]

----------------------------------------------------------------------------
(* The single-track pipeline and the batch fingerprinter.                  *)

(* A sample buffer: its number of samples, the library stage that raises   *)
(* on it ("none" when every stage succeeds: normalize raises on non-finite *)
(* samples, stft on a buffer it cannot frame), and the landmarks that      *)
(* find_peaks yields on its spectrogram.                                   *)
AudioBuffer(n, fault, peaks) ==
    [n |-> n, fault |-> fault, peaks |-> peaks, state |-> "raw"]

EmptyAudio == AudioBuffer(0, "none", <<>>)

Audios ==
    {EmptyAudio}
    \cup {AudioBuffer(n, f, <<>>) : n \in 1..MaxSamples, f \in {"normalize", "stft"}}
    \cup {AudioBuffer(n, "none", p) : n \in 1..MaxSamples, p \in PeakSeqs}

Returned(value, stages) ==
    [raised |-> None, value |-> value, stages |-> stages, log |-> <<>>]

Raised(error, stages) ==
    [raised |-> error, value |-> None, stages |-> stages, log |-> <<>>]

(* raise ValueError("Empty audio input")                                   *)
EmptyInputError == "ValueError: Empty audio input"

(* A plausible slip: an off-by-one in the emptiness test.                  *)
IsEmptyOrSingle(audio) == audio.n <= 1

(* if len(audio) == 0                                                      *)
IsEmpty(audio) == audio.n = 0

preprocess_audio(audio) ==
    IF IsEmpty(audio)
    THEN Raised(EmptyInputError, <<>>)
    ELSE IF audio.fault = "normalize"
    THEN Raised("ParameterError", <<"normalize">>)
    ELSE Returned([audio EXCEPT !.state = "preprocessed"],
                  <<"normalize", "trim">>)

generate_spectrogram(audio) ==
    IF audio.fault = "stft"
    THEN Raised("ParameterError", <<"stft">>)
    ELSE Returned([audio EXCEPT !.state = "spectrogram"],
                  <<"stft", "amplitude_to_db">>)

(* for fp in fingerprints: fp.track_id = track_id                          *)
SetTrackId(fps, track_id) ==
    [i \in 1..Len(fps) |-> [fps[i] EXCEPT !.track_id = track_id]]

(* A plausible slip: no handler, the error leaves fingerprint_audio.       *)
Reraise(error, stages) == Raised(error, stages)

(* except Exception as e: logger.error(...); return []                     *)
HandleFailure(error, stages) ==
    [raised |-> None, value |-> <<>>, stages |-> stages,
     log |-> <<<<"Fingerprinting failed", error>>>>]

fingerprint_audio(audio, track_id) ==
    LET pre == preprocess_audio(audio)
    IN  IF pre.raised # None THEN HandleFailure(pre.raised, pre.stages)
        ELSE
        LET sg == generate_spectrogram(pre.value)
        IN  IF sg.raised # None
            THEN HandleFailure(sg.raised, pre.stages \o sg.stages)
            ELSE Returned(
                     SetTrackId(generate_hashes(sg.value.peaks, DefaultFanOut),
                                track_id),
                     pre.stages \o sg.stages \o <<"find_peaks", "generate_hashes">>)

(* An audio file: its path (stem and extension) and what librosa.load      *)
(* makes of it: a sample buffer, or an error when it cannot be decoded     *)
(* (the buffer of an undecodable file is never read).                      *)
Extensions == {".wav", ".mp3"}

AudioFile(stem, ext, decodable, audio) ==
    [stem |-> stem, ext |-> ext, decodable |-> decodable, audio |-> audio]

(* the landmarks of the files of a batch: n landmarks in consecutive frames *)
Ramp(n) == [i \in 1..n |-> Peak(i - 1, 0)]

BatchAudios ==
    {a \in Audios : \E n \in Lengths : n # 1 /\ a.peaks = Ramp(n)}

AudioFiles ==
    {AudioFile(s, e, TRUE, a) :
        s \in TrackIdSet, e \in Extensions, a \in BatchAudios}
    \cup {AudioFile(s, e, FALSE, EmptyAudio) : s \in TrackIdSet, e \in Extensions}

(* track_id = os.path.splitext(os.path.basename(file_path))[0]             *)
TrackIdOf(file) == file.stem

(* process_file: (track_id, fingerprints), or None after any exception     *)
process_file(file) ==
    IF ~file.decodable
    THEN [none |-> TRUE, result |-> <<>>,
          log |-> <<<<"Failed to process", "decode error">>>>]
    ELSE LET r == fingerprint_audio(file.audio, TrackIdOf(file))
         IN  IF r.raised # None
             THEN [none |-> TRUE, result |-> <<>>,
                   log |-> r.log \o <<<<"Failed to process", r.raised>>>>]
             ELSE [none |-> FALSE, result |-> <<TrackIdOf(file), r.value>>,
                   log |-> r.log]

(* a dict as the sequence of its items: a key that is set again keeps its  *)
(* place and takes the new value                                           *)
DictSet(d, key, value) ==
    IF \E k \in 1..Len(d) : d[k][1] = key
    THEN [k \in 1..Len(d) |-> IF d[k][1] = key THEN <<key, value>> ELSE d[k]]
    ELSE Append(d, <<key, value>>)

DictKeys(d) == {d[k][1] : k \in 1..Len(d)}

(* {track_id: fingerprints for result in results if result is not None}    *)
RECURSIVE CollectResults(_, _)
CollectResults(d, results) ==
    IF results = <<>> THEN d
    ELSE CollectResults(
             IF Head(results).none THEN d
             ELSE DictSet(d, Head(results).result[1], Head(results).result[2]),
             Tail(results))

RECURSIVE CollectLogs(_)
CollectLogs(results) ==
    IF results = <<>> THEN <<>>
    ELSE Head(results).log \o CollectLogs(Tail(results))

(* pool.map(process_file, audio_files) is taken by its contract: the       *)
(* results of process_file in the order of the files.                      *)
parallel_fingerprint(audio_files) ==
    LET results == [i \in 1..Len(audio_files) |-> process_file(audio_files[i])]
    IN  [raised |-> None,
         value  |-> CollectResults(<<>>, results),
         stages |-> <<>>,
         log    |-> CollectLogs(results)]

----------------------------------------------------------------------------
(* Spec: the index.                                                        *)

NoCall ==
    [op |-> "none", track_id |-> None, peaks |-> <<>>, again |-> FALSE,
     threshold |-> 0, result |-> <<>>, replaced |-> <<>>]

(* no connection holds the write lock                                      *)
Unlocked == [holder |-> 0, level |-> "none"]

NoInput ==
    [kind |-> "none", audio |-> EmptyAudio, track_id |-> None, files |-> <<>>]

NoOutcome ==
    [op |-> "none", raised |-> None, value |-> None, stages |-> <<>>,
     log |-> <<>>]

Init ==
    /\ fingerprints = EmptyBag
    /\ ingested = [t \in TrackIdSet |-> {}]
    /\ tracks = {}
    /\ written = [t \in TrackIdSet |-> <<>>]
    /\ lock = Unlocked
    /\ conns = <<>>
    /\ call = NoCall
    /\ input = NoInput
    /\ outcome = NoOutcome

(* The caller fingerprints a track's landmarks and ingests them:           *)
(* insert_fingerprints({track_id: generate_hashes(peaks)}).  A track_id    *)
(* stands for one track: it is ingested with one landmark sequence, any    *)
(* number of times.                                                        *)
InsertFingerprints(track_id, peaks) ==
    /\ call.op = "none"
    /\ ingested[track_id] \subseteq {peaks}
    /\ fingerprints' =
          insert_fingerprints(fingerprints,
              <<<<track_id, generate_hashes(peaks, DefaultFanOut)>>>>)
    /\ ingested' = [ingested EXCEPT ![track_id] = @ \cup {peaks}]
    /\ call' = [op |-> "insert_fingerprints", track_id |-> track_id,
                peaks |-> peaks, again |-> peaks \in ingested[track_id],
                threshold |-> 0, result |-> <<>>, replaced |-> <<>>]
    /\ UNCHANGED <<input, outcome, tracks, written, lock, conns>>

(* A plausible slip: a lookup that consumes the rows it has counted.       *)
MatchFingerprintConsuming(peaks, threshold) ==
    /\ call.op = "none"
    /\ call' = [op |-> "match_fingerprint", track_id |-> None,
                peaks |-> peaks, again |-> FALSE, threshold |-> threshold,
                result |-> match_fingerprint(fingerprints,
                              generate_hashes(peaks, DefaultFanOut), threshold),
                replaced |-> <<>>]
    /\ fingerprints' =
          LET hashes == {fp.hash_value :
                            fp \in Range(generate_hashes(peaks, DefaultFanOut))}
              kept == {r \in BagToSet(fingerprints) : r.hash_value \notin hashes}
          IN  [r \in kept |-> fingerprints[r]]
    /\ UNCHANGED <<ingested, input, outcome, tracks, written, lock, conns>>

(* The caller fingerprints a query and matches it:                         *)
(* match_fingerprint(generate_hashes(peaks), threshold).                   *)
MatchFingerprint(peaks, threshold) ==
    /\ call.op = "none"
    /\ call' = [op |-> "match_fingerprint", track_id |-> None,
                peaks |-> peaks, again |-> FALSE, threshold |-> threshold,
                result |-> match_fingerprint(fingerprints,
                              generate_hashes(peaks, DefaultFanOut), threshold),
                replaced |-> <<>>]
    /\ UNCHANGED <<fingerprints, ingested, input, outcome, tracks, written, lock, conns>>

(* The caller is done with the result of the call.                         *)
Return ==
    /\ call.op # "none"
    /\ call' = NoCall
    /\ UNCHANGED <<fingerprints, ingested, input, outcome, tracks, written, lock, conns>>

Next ==
    \/ \E t \in TrackIdSet, p \in PeakSeqs : InsertFingerprints(t, p)
    \/ \E p \in PeakSeqs, th \in 1..MaxThreshold : MatchFingerprint(p, th)
    \/ Return

Spec == Init /\ [][Next]_vars

----------------------------------------------------------------------------
(* SpecMeta: the index with its metadata table; the landmark sequences are *)
(* the ramps.                                                              *)

RampSeqs == {Ramp(n) : n \in Lengths}

(* `replaced` keeps what get_track_metadata returned before the call       *)
InsertTrackMetadata(track_id, filename, artist, album, duration) ==
    /\ call.op = "none"
    /\ tracks' = insert_track_metadata(tracks, track_id, filename, artist,
                                        album, duration)
    /\ written' = [written EXCEPT
                      ![track_id] = <<track_id, filename, artist, album, duration>>]
    /\ call' = [op |-> "insert_track_metadata", track_id |-> track_id,
                peaks |-> <<>>, again |-> FALSE, threshold |-> 0,
                result |-> <<>>,
                replaced |-> get_track_metadata(tracks, track_id)]
    /\ UNCHANGED <<fingerprints, ingested, lock, conns, input, outcome>>

GetTrackMetadata(track_id) ==
    /\ call.op = "none"
    /\ call' = [op |-> "get_track_metadata", track_id |-> track_id,
                peaks |-> <<>>, again |-> FALSE, threshold |-> 0,
                result |-> get_track_metadata(tracks, track_id),
                replaced |-> <<>>]
    /\ UNCHANGED <<fingerprints, tracks, ingested, written, lock, conns,
                   input, outcome>>

MetaNext ==
    \/ \E t \in TrackIdSet, f \in Filenames, ar \in Artists, al \in Albums,
          d \in Durations : InsertTrackMetadata(t, f, ar, al, d)
    \/ \E t \in TrackIdSet : GetTrackMetadata(t)
    \/ \E t \in TrackIdSet, p \in RampSeqs : InsertFingerprints(t, p)
    \/ \E p \in RampSeqs, th \in 1..MaxThreshold : MatchFingerprint(p, th)
    \/ Return

SpecMeta == Init /\ [][MetaNext]_vars

----------------------------------------------------------------------------
(* SpecConc: two insert_fingerprints calls and one match_fingerprint call  *)
(* run concurrently, each on its own connection (sqlite3.connect) to the   *)
(* same database file in the default rollback-journal mode.  A step is one *)
(* statement of a call.  A write transaction starts with the call's first  *)
(* INSERT, which takes the file's write lock (RESERVED); its rows stay in  *)
(* the connection's own view until conn.commit(), which makes the lock     *)
(* EXCLUSIVE, writes the file and releases the lock.  A connection that    *)
(* finds the lock taken waits (it takes no step) and raises                *)
(* OperationalError when the connection's timeout runs out first.          *)

LockedError == "OperationalError: database is locked"

(* the rows of a call in the order of its two loops                        *)
RECURSIVE RowsOfDict(_)
RowsOfDict(fingerprints_dict) ==
    IF fingerprints_dict = <<>> THEN <<>>
    ELSE LET track_id == Head(fingerprints_dict)[1]
             fps == Head(fingerprints_dict)[2]
         IN  [k \in 1..Len(fps) |-> Row(track_id, fps[k])]
             \o RowsOfDict(Tail(fingerprints_dict))

Writer(fingerprints_dict) ==
    [op |-> "insert_fingerprints", pc |-> "connected",
     dict |-> fingerprints_dict, todo |-> RowsOfDict(fingerprints_dict),
     view |-> EmptyBag, sample |-> <<>>, next |-> 0, track_matches |-> <<>>,
     seen |-> <<>>, threshold |-> 0, result |-> <<>>, raised |-> None]

(* `seen` keeps, for every lookup done, the connections that had committed *)
Reader(sample_fingerprints, threshold) ==
    [op |-> "match_fingerprint", pc |-> "connected",
     dict |-> <<>>, todo |-> <<>>,
     view |-> EmptyBag, sample |-> sample_fingerprints, next |-> 1,
     track_matches |-> <<>>, seen |-> <<>>, threshold |-> threshold,
     result |-> <<>>, raised |-> None]

WriterDicts ==
    {<<<<t, generate_hashes(p, DefaultFanOut)>>>> :
        t \in TrackIdSet, p \in RampSeqs \ {Ramp(0)}}
    \cup {<<<<TrackIds[1], generate_hashes(Ramp(3), DefaultFanOut)>>,
            <<TrackIds[2], generate_hashes(Ramp(2), DefaultFanOut)>>>>}

(* the index before the calls: empty, or the first track ingested          *)
PreIngested ==
    {[t \in TrackIdSet |-> {}],
     [t \in TrackIdSet |-> IF t = TrackIds[1] THEN {Ramp(2)} ELSE {}]}

RECURSIVE IngestAll(_, _)
IngestAll(table, todo) ==
    IF todo = {} THEN table
    ELSE LET x == CHOOSE y \in todo : TRUE
         IN  IngestAll(insert_fingerprints(table,
                           <<<<x[1], generate_hashes(x[2], DefaultFanOut)>>>>),
                       todo \ {x})

(* the table after the ingests of a history                                *)
TableOf(history) ==
    IngestAll(EmptyBag,
              {x \in TrackIdSet \X PeakSeqs : x[2] \in history[x[1]]})

ConcInit ==
    /\ ingested \in PreIngested
    /\ fingerprints = TableOf(ingested)
    /\ tracks = {}
    /\ written = [t \in TrackIdSet |-> <<>>]
    /\ lock = Unlocked
    /\ conns \in {<<Writer(d1), Writer(d2),
                     Reader(generate_hashes(q, DefaultFanOut), th)>> :
                       d1 \in WriterDicts, d2 \in WriterDicts,
                       q \in {Ramp(2), Ramp(3)}, th \in 1..MaxThreshold}
    /\ call = NoCall
    /\ input = NoInput
    /\ outcome = NoOutcome

(* A plausible slip: no write lock, every connection may write.            *)
MayWriteAlways(lk, c) == TRUE

(* the connection may start or go on writing                               *)
MayWrite(lk, c) == lk.level = "none" \/ lk.holder = c

(* cursor.execute('INSERT OR IGNORE ...'): the first one of the call       *)
(* starts the transaction on the committed table                           *)
Execute(c) ==
    /\ conns[c].op = "insert_fingerprints"
    /\ conns[c].pc \in {"connected", "writing"}
    /\ conns[c].todo # <<>>
    /\ MayWrite(lock, c)
    /\ lock' = [holder |-> c, level |-> "reserved"]
    /\ conns' = [conns EXCEPT
                    ![c].pc = "writing",
                    ![c].view = InsertOrIgnore(
                                    IF conns[c].pc = "connected"
                                    THEN fingerprints ELSE conns[c].view,
                                    Head(conns[c].todo)),
                    ![c].todo = Tail(conns[c].todo)]
    /\ UNCHANGED <<fingerprints, tracks, ingested, written, call, input,
                   outcome>>

(* the first INSERT finds the lock taken until the timeout: it raises, and *)
(* the connection's context manager rolls back                             *)
WriterTimeout(c) ==
    /\ conns[c].op = "insert_fingerprints"
    /\ conns[c].pc = "connected"
    /\ conns[c].todo # <<>>
    /\ ~MayWrite(lock, c)
    /\ conns' = [conns EXCEPT ![c].pc = "raised", ![c].raised = LockedError]
    /\ UNCHANGED <<fingerprints, tracks, ingested, written, lock, call,
                   input, outcome>>

(* a storage error of the database file (I/O error, disk full)             *)
StorageError == "OperationalError: disk I/O error"

(* A plausible slip: an exit handler that commits what the transaction     *)
(* has written so far.                                                     *)
CommitOnExit(committed, conn) ==
    IF conn.pc \in {"writing", "committing"} THEN conn.view ELSE committed

(* the exception leaves the `with` block: the connection rolls back, the   *)
(* file keeps the committed table                                          *)
Rollback(committed, conn) == committed

(* An INSERT of the call, or its conn.commit(), raises a storage error:    *)
(* nothing catches it, the transaction is rolled back and its lock freed.  *)
StorageFailure(c) ==
    /\ conns[c].op = "insert_fingerprints"
    /\ \/ conns[c].pc = "connected" /\ conns[c].todo # <<>> /\ MayWrite(lock, c)
       \/ conns[c].pc \in {"writing", "committing"}
    /\ fingerprints' = Rollback(fingerprints, conns[c])
    /\ lock' = IF lock.holder = c THEN Unlocked ELSE lock
    /\ conns' = [conns EXCEPT ![c].pc = "raised", ![c].raised = StorageError,
                              ![c].view = EmptyBag]
    /\ UNCHANGED <<tracks, ingested, written, call, input, outcome>>

(* conn.commit(), first half: the lock becomes EXCLUSIVE (a call without   *)
(* rows has no transaction and returns at once)                            *)
BeginCommit(c) ==
    /\ conns[c].op = "insert_fingerprints"
    /\ conns[c].todo = <<>>
    /\ \/ /\ conns[c].pc = "writing"
          /\ lock' = [holder |-> c, level |-> "exclusive"]
          /\ conns' = [conns EXCEPT ![c].pc = "committing"]
       \/ /\ conns[c].pc = "connected"
          /\ lock' = lock
          /\ conns' = [conns EXCEPT ![c].pc = "returned"]
    /\ UNCHANGED <<fingerprints, tracks, ingested, written, call, input,
                   outcome>>

(* conn.commit(), second half: the rows are in the file, the lock is freed *)
EndCommit(c) ==
    /\ conns[c].op = "insert_fingerprints"
    /\ conns[c].pc = "committing"
    /\ fingerprints' = conns[c].view
    /\ lock' = IF lock.holder = c THEN Unlocked ELSE lock
    /\ conns' = [conns EXCEPT ![c].pc = "returned"]
    /\ UNCHANGED <<tracks, ingested, written, call, input, outcome>>

(* A plausible slip: the lookup reads the rows of the open transaction.    *)
ReadUncommitted(committed, lk, cs) ==
    IF lk.holder # 0 THEN cs[lk.holder].view ELSE committed

(* a SELECT reads the committed table                                      *)
ReadCommitted(committed, lk, cs) == committed

Committed == {c \in DOMAIN conns : conns[c].pc = "returned"
                                      /\ conns[c].op = "insert_fingerprints"}

(* one turn of `for fp in sample_fingerprints`: the SELECT and the loop    *)
(* over cursor.fetchall()                                                  *)
LookupStep(c) ==
    /\ conns[c].op = "match_fingerprint"
    /\ conns[c].pc = "connected"
    /\ conns[c].next <= Len(conns[c].sample)
    /\ lock.level # "exclusive"
    /\ LET fp == conns[c].sample[conns[c].next]
           rows == Lookup(ReadCommitted(fingerprints, lock, conns),
                          fp.hash_value)
       IN  conns' = [conns EXCEPT
                       ![c].track_matches = FetchLoop(@, fp, rows),
                       ![c].seen = Append(@, Committed),
                       ![c].next = @ + 1]
    /\ UNCHANGED <<fingerprints, tracks, ingested, written, lock, call,
                   input, outcome>>

(* the SELECT finds the file locked EXCLUSIVE until the timeout            *)
ReaderTimeout(c) ==
    /\ conns[c].op = "match_fingerprint"
    /\ conns[c].pc = "connected"
    /\ conns[c].next <= Len(conns[c].sample)
    /\ lock.level = "exclusive"
    /\ conns' = [conns EXCEPT ![c].pc = "raised", ![c].raised = LockedError]
    /\ UNCHANGED <<fingerprints, tracks, ingested, written, lock, call,
                   input, outcome>>

(* after the loop: the confidences, the threshold and the sort             *)
FinishMatch(c) ==
    /\ conns[c].op = "match_fingerprint"
    /\ conns[c].pc = "connected"
    /\ conns[c].next > Len(conns[c].sample)
    /\ conns' = [conns EXCEPT
                    ![c].pc = "returned",
                    ![c].result = SortedByConfidence(
                                      MatchResults(conns[c].track_matches,
                                                   conns[c].threshold))]
    /\ UNCHANGED <<fingerprints, tracks, ingested, written, lock, call,
                   input, outcome>>

ConcNext ==
    \/ \E c \in DOMAIN conns : Execute(c)
    \/ \E c \in DOMAIN conns : WriterTimeout(c)
    \/ \E c \in DOMAIN conns : BeginCommit(c)
    \/ \E c \in DOMAIN conns : EndCommit(c)
    \/ \E c \in DOMAIN conns : StorageFailure(c)
    \/ \E c \in DOMAIN conns : LookupStep(c)
    \/ \E c \in DOMAIN conns : ReaderTimeout(c)
    \/ \E c \in DOMAIN conns : FinishMatch(c)

SpecConc == ConcInit /\ [][ConcNext]_vars

----------------------------------------------------------------------------
(* SpecPipe: one call of the pipeline on an input drawn by PipeInit.       *)

FileLists == UNION {[1..n -> AudioFiles] : n \in 0..MaxFiles}

PipeInputs ==
    {[kind |-> "preprocess_audio", audio |-> a, track_id |-> None,
      files |-> <<>>] : a \in Audios}
    \cup {[kind |-> "fingerprint_audio", audio |-> a, track_id |-> t,
           files |-> <<>>] : a \in Audios, t \in TrackIdSet \cup {None}}
    \cup {[kind |-> "parallel_fingerprint", audio |-> EmptyAudio, track_id |-> None,
           files |-> fl] : fl \in FileLists}

PipeInit ==
    /\ fingerprints = EmptyBag
    /\ ingested = [t \in TrackIdSet |-> {}]
    /\ tracks = {}
    /\ written = [t \in TrackIdSet |-> <<>>]
    /\ lock = Unlocked
    /\ conns = <<>>
    /\ call = NoCall
    /\ input \in PipeInputs
    /\ outcome = NoOutcome

Outcome(op, r) ==
    [op |-> op, raised |-> r.raised, value |-> r.value, stages |-> r.stages,
     log |-> r.log]

PreprocessAudio ==
    /\ outcome.op = "none"
    /\ input.kind = "preprocess_audio"
    /\ outcome' = Outcome("preprocess_audio", preprocess_audio(input.audio))
    /\ UNCHANGED <<fingerprints, ingested, call, input, tracks, written, lock, conns>>

FingerprintAudio ==
    /\ outcome.op = "none"
    /\ input.kind = "fingerprint_audio"
    /\ outcome' = Outcome("fingerprint_audio",
                           fingerprint_audio(input.audio, input.track_id))
    /\ UNCHANGED <<fingerprints, ingested, call, input, tracks, written, lock, conns>>

ParallelFingerprint ==
    /\ outcome.op = "none"
    /\ input.kind = "parallel_fingerprint"
    /\ outcome' = Outcome("parallel_fingerprint",
                           parallel_fingerprint(input.files))
    /\ UNCHANGED <<fingerprints, ingested, call, input, tracks, written, lock, conns>>

PipeNext ==
    \/ PreprocessAudio
    \/ FingerprintAudio
    \/ ParallelFingerprint

SpecPipe == PipeInit /\ [][PipeNext]_vars

----------------------------------------------------------------------------
(* SpecPeaks: find_peaks on a spectrogram drawn by PeaksInit, then         *)
(* generate_hashes on the landmarks it returned.                           *)

PeaksInputs ==
    {[kind |-> "find_peaks", spectrogram |-> sg, max_peaks |-> m,
      fan_out |-> k] :
        sg \in Spectrograms,
        m \in (1..MaxCap) \cup {DefaultMaxPeaks},
        k \in (1..MaxFanOut) \cup {DefaultFanOut}}

PeaksInit ==
    /\ fingerprints = EmptyBag
    /\ ingested = [t \in TrackIdSet |-> {}]
    /\ tracks = {}
    /\ written = [t \in TrackIdSet |-> <<>>]
    /\ lock = Unlocked
    /\ conns = <<>>
    /\ call = NoCall
    /\ input \in PeaksInputs
    /\ outcome = [op |-> "none", peaks |-> <<>>, fingerprints |-> <<>>]

FindPeaks ==
    /\ outcome.op = "none"
    /\ outcome' = [op |-> "find_peaks",
                   peaks |-> find_peaks(input.spectrogram, input.max_peaks),
                   fingerprints |-> <<>>]
    /\ UNCHANGED <<fingerprints, ingested, call, input, tracks, written, lock, conns>>

GenerateHashes ==
    /\ outcome.op = "find_peaks"
    /\ outcome' = [outcome EXCEPT
                      !.op = "generate_hashes",
                      !.fingerprints = generate_hashes(outcome.peaks,
                                                       input.fan_out)]
    /\ UNCHANGED <<fingerprints, ingested, call, input, tracks, written, lock, conns>>

PeaksNext ==
    \/ FindPeaks
    \/ GenerateHashes

SpecPeaks == PeaksInit /\ [][PeaksNext]_vars

----------------------------------------------------------------------------
(* Properties of the index (checked under Spec).                           *)

Rows == BagToSet(fingerprints)

RowsOf(t) == {r \in Rows : r.track_id = t}

(* the fingerprint list of the current call                                *)
CallFingerprints == generate_hashes(call.peaks, DefaultFanOut)

Matched == call.op = "match_fingerprint"

ResultTracks == {call.result[k].track_id : k \in 1..Len(call.result)}

ResultIndex(t) == CHOOSE k \in 1..Len(call.result) : call.result[k].track_id = t

(* The delta multiset of track t, stated on the table: one entry for every *)
(* pair (query fingerprint, stored row of t with the same hash_value).     *)
DeltaPairs(t) ==
    {x \in (1..Len(CallFingerprints)) \X RowsOf(t) :
        x[2].hash_value = CallFingerprints[x[1]].hash_value}

Delta(x) == Abs(CallFingerprints[x[1]].time_offset - x[2].time_offset)

TotalMatches(t) == Cardinality(DeltaPairs(t))

UniqueDeltas(t) == Cardinality({Delta(x) : x \in DeltaPairs(t)})

(* the list of deltas match_fingerprint collected for track t              *)
TimeDiffsOf(t) ==
    LET tm == TrackMatches(fingerprints, CallFingerprints)
    IN  IF HasTrack(tm, t)
        THEN tm[CHOOSE k \in 1..Len(tm) : tm[k].track_id = t].time_diffs
        ELSE <<>>

(* C1: no (hash_value, track_id, time_offset) key is stored more than once *)
(* after any sequence of ingests.                                          *)
NoDuplicateKeys ==
    \A r \in Rows :
        /\ CopiesIn(r, fingerprints) = 1
        /\ \A s \in Rows : PrimaryKey(s) = PrimaryKey(r) => s = r

(* C1: ingesting under a track a fingerprint list that was already         *)
(* ingested under it leaves the table, and with it the result of every     *)
(* match, as it was.                                                       *)
ReingestIsNoOp ==
    (call'.op = "insert_fingerprints" /\ call'.again) =>
        /\ fingerprints' = fingerprints
        /\ \A q \in PeakSeqs, th \in 1..MaxThreshold :
               match_fingerprint(fingerprints',
                                 generate_hashes(q, DefaultFanOut), th)
             = match_fingerprint(fingerprints,
                                 generate_hashes(q, DefaultFanOut), th)

(* C1: idempotent ingestion: a repeated insert_fingerprints({t: F}) is a   *)
(* no-op on the table and on every match result, and no key is ever stored *)
(* twice.                                                                  *)
C1_IdempotentIngestion == []NoDuplicateKeys /\ [][ReingestIsNoOp]_vars

C1_Witness ==
    /\ call.op = "insert_fingerprints"
    /\ call.again
    /\ Len(CallFingerprints) >= 2
    /\ \E t \in TrackIdSet : t # call.track_id /\ RowsOf(t) # {}

(* the query is the fingerprint list of a landmark sequence ingested under *)
(* t, and it has at least `threshold` fingerprints                         *)
SelfMatch(t) ==
    /\ Matched
    /\ call.peaks \in ingested[t]
    /\ Len(CallFingerprints) >= call.threshold

(* C2 as stated: a self-match lists t first, with one distinct delta and   *)
(* confidence equal to total_matches, whatever else the index holds.       *)
C2_SelfMatchAsStated ==
    \A t \in TrackIdSet :
        SelfMatch(t) =>
            /\ call.result # <<>>
            /\ call.result[1].track_id = t
            /\ Cardinality(Range(TimeDiffsOf(t))) = 1
            /\ call.result[1].confidence = Quotient(Len(TimeDiffsOf(t)), 1)

(* every stored row of t that shares a hash_value with a query fingerprint *)
(* has that fingerprint's time_offset                                      *)
AlignedOnly(t) ==
    \A i \in 1..Len(CallFingerprints), r \in RowsOf(t) :
        r.hash_value = CallFingerprints[i].hash_value
            => r.time_offset = CallFingerprints[i].time_offset

(* C2 (amended): a self-match reports t; every query fingerprint meets its *)
(* own row at delta 0, so total_matches >= len(F); when no hash_value of   *)
(* the query is stored for t at another time_offset, unique_deltas is 1    *)
(* and the confidence equals total_matches.                                *)
C2_SelfMatch ==
    \A t \in TrackIdSet :
        SelfMatch(t) =>
            /\ t \in ResultTracks
            /\ Cardinality({j \in 1..Len(TimeDiffsOf(t)) : TimeDiffsOf(t)[j] = 0})
                   >= Len(CallFingerprints)
            /\ AlignedOnly(t) =>
                   /\ Cardinality(Range(TimeDiffsOf(t))) = 1
                   /\ call.result[ResultIndex(t)].confidence
                          = Quotient(Len(TimeDiffsOf(t)), 1)

C2_Witness ==
    \E t \in TrackIdSet :
        /\ SelfMatch(t)
        /\ AlignedOnly(t)
        /\ Len(TimeDiffsOf(t)) = Len(CallFingerprints)
        /\ \E u \in ResultTracks : u # t

(* C3 as stated: the result is sorted by confidence descending and tracks  *)
(* of equal confidence are in ascending track_id order.                    *)
C3_OrderingAsStated ==
    Matched =>
        \A i, j \in 1..Len(call.result) :
            i < j =>
                \/ QLess(call.result[j].confidence, call.result[i].confidence)
                \/ /\ call.result[i].confidence = call.result[j].confidence
                   /\ TrackRank(call.result[i].track_id)
                          < TrackRank(call.result[j].track_id)

(* the first query fingerprint whose hash_value is stored for track t      *)
FirstHit(t) ==
    CHOOSE i \in 1..Len(CallFingerprints) :
        /\ \E r \in RowsOf(t) : r.hash_value = CallFingerprints[i].hash_value
        /\ \A k \in 1..(i - 1) :
               \A r \in RowsOf(t) : r.hash_value # CallFingerprints[k].hash_value

(* C3 (amended): the result is sorted by confidence descending, and tracks *)
(* of equal confidence keep the order in which the query first matched     *)
(* them (which need not be the order of their track_ids).                  *)
C3_Ordering ==
    Matched =>
        \A i, j \in 1..Len(call.result) :
            i < j =>
                /\ ~QLess(call.result[i].confidence, call.result[j].confidence)
                /\ call.result[i].confidence = call.result[j].confidence
                       => FirstHit(call.result[i].track_id)
                              <= FirstHit(call.result[j].track_id)

C3_Witness ==
    /\ Matched
    /\ \E i, j \in 1..Len(call.result) :
           /\ i < j
           /\ call.result[i].confidence = call.result[j].confidence
           /\ TrackRank(call.result[i].track_id)
                  > TrackRank(call.result[j].track_id)
           /\ FirstHit(call.result[i].track_id)
                  < FirstHit(call.result[j].track_id)

(* C4: the confidence of every reported track is total_matches divided by  *)
(* max(1, unique_deltas) of its delta multiset.                            *)
C4_ConfidenceFormula ==
    Matched =>
        \A k \in 1..Len(call.result) :
            LET t == call.result[k].track_id
                c == call.result[k].confidence
            IN  /\ c.den > 0
                /\ c.num * Max(1, UniqueDeltas(t)) = TotalMatches(t) * c.den

C4_Witness ==
    /\ Matched
    /\ \E t \in ResultTracks :
           /\ UniqueDeltas(t) > 1
           /\ TotalMatches(t) > UniqueDeltas(t)
           /\ TotalMatches(t) > Len(CallFingerprints)

(* C5: a track is reported if and only if its total_matches >= threshold.  *)
C5_ThresholdBoundary ==
    Matched =>
        \A t \in TrackIdSet :
            t \in ResultTracks <=> TotalMatches(t) >= call.threshold

C5_Witness ==
    /\ Matched
    /\ \E t, u \in TrackIdSet :
           /\ TotalMatches(t) = call.threshold
           /\ t \in ResultTracks
           /\ TotalMatches(u) = call.threshold - 1
           /\ TotalMatches(u) > 0
           /\ u \notin ResultTracks

(* the (anchor, target) index pairs generate_hashes hashes                 *)
Pairs(p) ==
    {x \in (1..Len(p)) \X (1..Len(p)) :
        x[1] < x[2] /\ x[2] <= x[1] + DefaultFanOut}

Triple(p, x) == <<p[x[1]][2], p[x[2]][2], p[x[2]][1] - p[x[1]][1]>>

Collide(t, p, x, u, q, y) ==
    /\ t # u
    /\ p \in ingested[t]
    /\ q \in ingested[u]
    /\ x \in Pairs(p)
    /\ y \in Pairs(q)
    /\ Triple(p, x) = Triple(q, y)

(* C6: two pairs with the same (freq1, freq2, time_delta) in two ingested  *)
(* tracks have the same hash_value, wherever they lie in their tracks, and *)
(* the occurrences of that hash hold a row of each of the two tracks.      *)
C6_CrossTrackCollision ==
    \A t, u \in TrackIdSet :
        \A p \in ingested[t], q \in ingested[u] :
            \A x \in Pairs(p), y \in Pairs(q) :
                Collide(t, p, x, u, q, y) =>
                    LET h == MakeFingerprint(p[x[1]], p[x[2]]).hash_value
                    IN  /\ MakeFingerprint(q[y[1]], q[y[2]]).hash_value = h
                        /\ <<t, p[x[1]][1]>> \in Range(Lookup(fingerprints, h))
                        /\ <<u, q[y[1]][1]>> \in Range(Lookup(fingerprints, h))

C6_Witness ==
    \E t, u \in TrackIdSet :
        \E p \in ingested[t], q \in ingested[u] :
            \E x \in Pairs(p), y \in Pairs(q) :
                /\ Collide(t, p, x, u, q, y)
                /\ p[x[1]][1] # q[y[1]][1]

(* q is p with some of its landmarks left out, the order kept               *)
RECURSIVE IsSubsequence(_, _)
IsSubsequence(q, p) ==
    IF q = <<>> THEN TRUE
    ELSE IF p = <<>> THEN FALSE
    ELSE IF Head(q) = Head(p) THEN IsSubsequence(Tail(q), Tail(p))
    ELSE IsSubsequence(q, Tail(p))

(* the query is built from a subsequence of the landmarks ingested under t *)
(* and t has at least `threshold` matches                                  *)
NoisyQueryOf(t) ==
    /\ Matched
    /\ \E p \in ingested[t] : IsSubsequence(call.peaks, p)
    /\ TotalMatches(t) >= call.threshold

(* u is another track, and the query is not a subsequence of its landmarks *)
Unrelated(u, t) ==
    /\ u # t
    /\ \A q \in ingested[u] : ~IsSubsequence(call.peaks, q)

(* C15 as stated: a query built from a subsequence of the landmarks of t,  *)
(* with total_matches >= threshold for t, lists t before every unrelated   *)
(* track of the result.                                                    *)
C15_NoiseRobustnessAsStated ==
    \A t, u \in TrackIdSet :
        (NoisyQueryOf(t) /\ Unrelated(u, t) /\ u \in ResultTracks) =>
            /\ t \in ResultTracks
            /\ ResultIndex(t) < ResultIndex(u)

(* the positions in p of the two landmarks of query fingerprint pair x     *)
PositionIn(p, landmark) == CHOOSE i \in 1..Len(p) : p[i] = landmark

WithinFanOut(p, x) ==
    PositionIn(p, call.peaks[x[2]]) - PositionIn(p, call.peaks[x[1]])
        <= DefaultFanOut

(* C15 (amended): such a query reports t; every query fingerprint whose    *)
(* two landmarks lie at most fan_out positions apart in the sequence of t  *)
(* meets a stored row of t at delta 0; t comes before every reported track *)
(* of strictly smaller confidence (a track of equal or larger confidence   *)
(* can come first).                                                        *)
C15_NoiseRobustness ==
    \A t \in TrackIdSet :
        NoisyQueryOf(t) =>
            /\ t \in ResultTracks
            /\ \A p \in ingested[t] :
                   IsSubsequence(call.peaks, p) =>
                       \A x \in Pairs(call.peaks) :
                           WithinFanOut(p, x) =>
                               \E r \in RowsOf(t) :
                                   /\ r.hash_value
                                          = MakeFingerprint(call.peaks[x[1]],
                                                call.peaks[x[2]]).hash_value
                                   /\ r.time_offset = call.peaks[x[1]][1]
            /\ Len(TimeDiffsOf(t)) = TotalMatches(t)
            /\ \A u \in ResultTracks :
                   QLess(call.result[ResultIndex(u)].confidence,
                         call.result[ResultIndex(t)].confidence)
                       => ResultIndex(t) < ResultIndex(u)

C15_Witness ==
    \E t, u \in TrackIdSet :
        /\ NoisyQueryOf(t)
        /\ \E p \in ingested[t] :
               IsSubsequence(call.peaks, p) /\ Len(call.peaks) < Len(p)
        /\ Unrelated(u, t)
        /\ u \in ResultTracks
        /\ ResultIndex(t) < ResultIndex(u)

----------------------------------------------------------------------------
(* Properties of the pipelines (checked under SpecPipe).                   *)

Ran(op) == outcome.op = op

(* a stage of the pipeline fails on this buffer                            *)
StageFails(audio) == audio.n = 0 \/ audio.fault # "none"

(* the input fails by a decode error or an empty sample buffer             *)
FileFails(file) == ~file.decodable \/ file.audio.n = 0

FileHealthy(file) == file.decodable /\ ~StageFails(file.audio)

DistinctStems ==
    \A i, j \in 1..Len(input.files) :
        i # j => TrackIdOf(input.files[i]) # TrackIdOf(input.files[j])

OneInputFails ==
    /\ DistinctStems
    /\ \E i \in 1..Len(input.files) :
           /\ FileFails(input.files[i])
           /\ \A j \in 1..Len(input.files) : j # i => FileHealthy(input.files[j])

(* C7: batch isolation: with one failing input (decode error or empty      *)
(* buffer) parallel_fingerprint does not raise, has an entry for every     *)
(* other input and no entry for the failing one.                           *)
C7_BatchIsolation ==
    (Ran("parallel_fingerprint") /\ OneInputFails) =>
        /\ outcome.raised = None
        /\ \A i \in 1..Len(input.files) :
               /\ FileHealthy(input.files[i])
                      => TrackIdOf(input.files[i]) \in DictKeys(outcome.value)
               /\ FileFails(input.files[i])
                      => TrackIdOf(input.files[i]) \notin DictKeys(outcome.value)

DuplicateStems ==
    \E i, j \in 1..Len(input.files) :
        i < j /\ TrackIdOf(input.files[i]) = TrackIdOf(input.files[j])

CollisionReported ==
    \/ outcome.raised # None
    \/ \E k \in 1..Len(outcome.log) : outcome.log[k][1] = "Duplicate track id"

(* C8: two inputs of one batch with the same track_id are reported to the  *)
(* caller instead of one overwriting the other; with pairwise distinct     *)
(* stems and no failure the result has exactly one entry per input.        *)
C8_DuplicateTrackId ==
    Ran("parallel_fingerprint") =>
        /\ DuplicateStems => CollisionReported
        /\ (DistinctStems /\ \A i \in 1..Len(input.files) :
                                 FileHealthy(input.files[i]))
               => /\ outcome.raised = None
                  /\ Len(outcome.value) = Len(input.files)
                  /\ DictKeys(outcome.value)
                         = {TrackIdOf(input.files[i]) : i \in 1..Len(input.files)}

C10_EmptyInputFailsFast ==
    Ran("preprocess_audio") =>
        /\ input.audio.n = 0
               => /\ outcome.raised = EmptyInputError
                  /\ outcome.stages = <<>>
                  /\ outcome.value = None
        /\ input.audio.n > 0 => outcome.raised # EmptyInputError

C10_Witness ==
    /\ Ran("preprocess_audio")
    /\ input.audio.n = 0
    /\ outcome.raised = EmptyInputError
    /\ outcome.stages = <<>>

----------------------------------------------------------------------------
(* Properties of the peak extractor and the hasher (checked under          *)
(* SpecPeaks).                                                             *)

PeaksFound == outcome.op \in {"find_peaks", "generate_hashes"}

Hashed == outcome.op = "generate_hashes"

FrameCount == Len(input.spectrogram)

BinCount == IF FrameCount = 0 THEN 0 ELSE Len(input.spectrogram[1])

(* the magnitude of bin f (0-based) of frame t (0-based)                   *)
Magnitude(t, f) == input.spectrogram[t + 1][f + 1]

(* the bins f-5..f+5 clipped to the grid                                   *)
Window(f) ==
    {g \in 0..(BinCount - 1) :
        f - NeighborhoodRadius <= g /\ g <= f + NeighborhoodRadius}

(* no other bin of the window has an equal or larger magnitude             *)
StrictMaximum(t, f) ==
    \A g \in Window(f) : g # f => Magnitude(t, g) < Magnitude(t, f)

(* the positions in the returned sequence of the landmarks of frame t      *)
Emitted(t) == {i \in 1..Len(outcome.peaks) : outcome.peaks[i][1] = t}

EmittedBins(t) == {outcome.peaks[i][2] : i \in Emitted(t)}

CandidateBins(t) ==
    {f \in 0..(BinCount - 1) : IsCandidate(input.spectrogram[t + 1], f)}

(* C11: with a cap that does not bind, bin f of frame t is a landmark if   *)
(* and only if its magnitude is the strict maximum of its window and above *)
(* the noise floor; two bins of equal magnitude in one window are never    *)
(* both landmarks.                                                         *)
C11_PeakCandidateRule ==
    (PeaksFound /\ input.max_peaks = DefaultMaxPeaks) =>
        \A t \in 0..(FrameCount - 1), f \in 0..(BinCount - 1) :
            /\ f \in EmittedBins(t)
                   <=> (StrictMaximum(t, f) /\ Magnitude(t, f) > NoiseFloor)
            /\ \A g \in Window(f) :
                   (g # f /\ Magnitude(t, g) = Magnitude(t, f))
                       => ~(f \in EmittedBins(t) /\ g \in EmittedBins(t))

(* C12: a frame with k candidates yields min(k, max_peaks) landmarks, each *)
(* a candidate bin with its magnitude, no bin twice, and no landmark has a *)
(* smaller magnitude than a candidate of the frame that was left out.      *)
C12_PeakCap ==
    PeaksFound =>
        \A t \in 0..(FrameCount - 1) :
            /\ Cardinality(Emitted(t))
                   = Min(Cardinality(CandidateBins(t)), input.max_peaks)
            /\ Cardinality(EmittedBins(t)) = Cardinality(Emitted(t))
            /\ EmittedBins(t) \subseteq CandidateBins(t)
            /\ \A i \in Emitted(t) :
                   outcome.peaks[i][3] = Magnitude(t, outcome.peaks[i][2])
            /\ \A f \in EmittedBins(t), g \in CandidateBins(t) \ EmittedBins(t) :
                   Magnitude(t, f) >= Magnitude(t, g)

C12_Witness ==
    /\ PeaksFound
    /\ \E t \in 0..(FrameCount - 1) :
           /\ Cardinality(CandidateBins(t)) > input.max_peaks
           /\ \E f \in EmittedBins(t), g \in CandidateBins(t) \ EmittedBins(t) :
                  /\ Magnitude(t, f) > Magnitude(t, g)
                  /\ g < f

(* the number of targets of the anchor at 1-based index i among n peaks    *)
TargetCount(n, k, i) == Min(k, n - i)

RECURSIVE PairsBefore(_, _, _)
PairsBefore(n, k, i) ==
    IF i <= 1 THEN 0
    ELSE PairsBefore(n, k, i - 1) + TargetCount(n, k, i - 1)

(* C13: generate_hashes emits one fingerprint for each pair i < j <=       *)
(* min(i + fan_out, n) of 1-based indices, anchor by anchor and target by  *)
(* target, none when n < 2; the fingerprint of (i, j) has the anchor's     *)
(* frame as time_offset, the two bins as frequency_pair and no track_id,   *)
(* whether or not the two peaks lie in one frame.                          *)
C13_FanOutPairing ==
    Hashed =>
        LET n == Len(outcome.peaks)
            k == input.fan_out
            fps == outcome.fingerprints
        IN  /\ Len(fps) = PairsBefore(n, k, n + 1)
            /\ n < 2 => fps = <<>>
            /\ \A i \in 1..n, j \in 1..n :
                   (i < j /\ j <= Min(i + k, n)) =>
                       LET fp == fps[PairsBefore(n, k, i) + (j - i)]
                       IN  /\ fp.time_offset = outcome.peaks[i][1]
                           /\ fp.frequency_pair
                                  = <<outcome.peaks[i][2], outcome.peaks[j][2]>>
                           /\ fp.track_id = None
                           /\ fp.hash_value
                                  = Sha256Mod32(<<outcome.peaks[i][2],
                                                  outcome.peaks[j][2],
                                                  outcome.peaks[j][1]
                                                      - outcome.peaks[i][1]>>)

C13_Witness ==
    /\ Hashed
    /\ Len(outcome.peaks) >= input.fan_out + 3
    /\ Len(outcome.fingerprints) > input.fan_out
    /\ \E i \in 1..(Len(outcome.peaks) - 1) :
           outcome.peaks[i][1] = outcome.peaks[i + 1][1]
    /\ \E i \in 1..(Len(outcome.peaks) - 1) :
           outcome.peaks[i][1] < outcome.peaks[i + 1][1]

(* C17: the landmark sequence is frame-major; within a frame the           *)
(* magnitudes do not increase, and landmarks of one frame with the same    *)
(* magnitude are in ascending bin order.                                   *)
C17_LandmarkOrder ==
    PeaksFound =>
        \A i, j \in 1..Len(outcome.peaks) :
            i < j =>
                /\ outcome.peaks[i][1] <= outcome.peaks[j][1]
                /\ outcome.peaks[i][1] = outcome.peaks[j][1]
                       => /\ outcome.peaks[i][3] >= outcome.peaks[j][3]
                          /\ outcome.peaks[i][3] = outcome.peaks[j][3]
                                 => outcome.peaks[i][2] < outcome.peaks[j][2]

C17_Witness ==
    /\ PeaksFound
    /\ \E i, j, k \in 1..Len(outcome.peaks) :
           /\ i < j /\ j < k
           /\ outcome.peaks[i][1] = outcome.peaks[j][1]
           /\ outcome.peaks[i][3] = outcome.peaks[j][3]
           /\ outcome.peaks[j][1] < outcome.peaks[k][1]
           /\ outcome.peaks[j][2] > outcome.peaks[k][2]

(* the time_delta values whose hash is the hash_value of fingerprint fp    *)
HashedDeltas(fp) ==
    {dt \in (-FrameCount)..FrameCount :
        fp.hash_value
            = Sha256Mod32(<<fp.frequency_pair[1], fp.frequency_pair[2], dt>>)}

(* C20: every fingerprint derived from the landmarks of find_peaks hashes  *)
(* a time_delta >= 0: the target never lies in an earlier frame than the   *)
(* anchor.                                                                 *)
C20_NonNegativeTimeDelta ==
    Hashed =>
        /\ \A i, j \in 1..Len(outcome.peaks) :
               i < j => outcome.peaks[j][1] - outcome.peaks[i][1] >= 0
        /\ \A n \in 1..Len(outcome.fingerprints) :
               /\ HashedDeltas(outcome.fingerprints[n]) # {}
               /\ \A dt \in HashedDeltas(outcome.fingerprints[n]) : dt >= 0

C20_Witness ==
    /\ Hashed
    /\ \E n, m \in 1..Len(outcome.fingerprints) :
           /\ 0 \in HashedDeltas(outcome.fingerprints[n])
           /\ \E dt \in HashedDeltas(outcome.fingerprints[m]) : dt > 0

----------------------------------------------------------------------------
(* Properties of the metadata table and of the read-only calls (checked    *)
(* under SpecMeta).                                                        *)

(* the dict that get_track_metadata returns for a stored row               *)
AsDict(row) == [k \in 1..Len(Columns) |-> <<Columns[k], row[k]>>]

(* C14: get_track_metadata(t) returns the five arguments of the last       *)
(* insert_track_metadata call for t and nothing of the calls before it,    *)
(* the empty dict when there was no call for t; a call for t leaves what   *)
(* is returned for the other track_ids as it was.                          *)
C14_MetadataUpsert ==
    /\ \A t \in TrackIdSet :
           get_track_metadata(tracks, t)
               = IF written[t] = <<>> THEN <<>> ELSE AsDict(written[t])
    /\ call.op = "get_track_metadata" =>
           call.result = IF written[call.track_id] = <<>> THEN <<>>
                         ELSE AsDict(written[call.track_id])

C14_Witness ==
    /\ call.op = "insert_track_metadata"
    /\ call.replaced # <<>>
    /\ \E k \in 1..Len(Columns) :
           /\ call.replaced[k][2] # None
           /\ written[call.track_id][k] = None
           /\ get_track_metadata(tracks, call.track_id)[k][2] = None
    /\ \E u \in TrackIdSet :
           u # call.track_id /\ get_track_metadata(tracks, u) # <<>>

ReadOnlyStep ==
    (call.op = "none"
        /\ call'.op \in {"match_fingerprint", "get_track_metadata"}) =>
        /\ fingerprints' = fingerprints
        /\ tracks' = tracks
        /\ call'.op = "match_fingerprint" =>
               match_fingerprint(fingerprints',
                                 generate_hashes(call'.peaks, DefaultFanOut),
                                 call'.threshold) = call'.result
        /\ call'.op = "get_track_metadata" =>
               get_track_metadata(tracks', call'.track_id) = call'.result

(* C18: a match_fingerprint call and a get_track_metadata call leave the   *)
(* tables `fingerprints` and `tracks` as they were, so the same call made  *)
(* again right after it returns the same result.                           *)
C18_MatchingIsReadOnly == [][ReadOnlyStep]_vars

C18_Witness ==
    /\ call.op = "match_fingerprint"
    /\ Len(call.result) = Len(TrackIds)
    /\ tracks # {}

----------------------------------------------------------------------------
(* Properties of concurrent calls (checked under SpecConc).                *)

Writers == {c \in DOMAIN conns : conns[c].op = "insert_fingerprints"}

Readers == {c \in DOMAIN conns : conns[c].op = "match_fingerprint"}

WritersDone == \A c \in Writers : conns[c].pc \in {"returned", "raised"}

(* the table before the calls                                              *)
PreTable == TableOf(ingested)

(* the tuples of a set of calls                                            *)
TuplesOf(W) == UNION {Range(RowsOfDict(conns[c].dict)) : c \in W}

(* the calls of W run one after the other on the table                     *)
RECURSIVE OneAfterTheOther(_, _)
OneAfterTheOther(table, W) ==
    IF W = {} THEN table
    ELSE LET c == CHOOSE x \in W : \A y \in W : x <= y
         IN  OneAfterTheOther(insert_fingerprints(table, conns[c].dict),
                              W \ {c})

SameTupleInBoth ==
    \E c, d \in Writers :
        c # d /\ Range(RowsOfDict(conns[c].dict))
                    \cap Range(RowsOfDict(conns[d].dict)) # {}

(* C16 as stated: when the two calls are over, the table holds the union   *)
(* of the tuples of both, each once, as after running them one after the   *)
(* other.                                                                  *)
C16_SerializedIngestionAsStated ==
    WritersDone =>
        /\ BagToSet(fingerprints) = BagToSet(PreTable) \cup TuplesOf(Writers)
        /\ fingerprints = OneAfterTheOther(PreTable, Writers)
        /\ \A r \in BagToSet(fingerprints) : CopiesIn(r, fingerprints) = 1

(* C16 (amended): at every moment the table is the table before the calls  *)
(* plus the tuples of the calls that have committed, each tuple once, as   *)
(* after running those calls one after the other; a call that found the    *)
(* write lock taken until its timeout (or met a storage error) has raised  *)
(* and stored nothing; the two calls are never both in a transaction.      *)
C16_SerializedIngestion ==
    /\ BagToSet(fingerprints) = BagToSet(PreTable) \cup TuplesOf(Committed)
    /\ fingerprints = OneAfterTheOther(PreTable, Committed)
    /\ \A r \in BagToSet(fingerprints) : CopiesIn(r, fingerprints) = 1
    /\ \A c \in Writers :
           conns[c].pc = "raised" =>
               /\ conns[c].raised \in {LockedError, StorageError}
               /\ conns[c].view = EmptyBag
    /\ Cardinality({c \in Writers :
                       conns[c].pc \in {"writing", "committing"}}) <= 1

C16_Witness ==
    /\ WritersDone
    /\ Committed = Writers
    /\ SameTupleInBoth
    /\ \E c \in Writers :
           ~(Range(RowsOfDict(conns[c].dict)) \subseteq BagToSet(PreTable))
    /\ \E c, d \in Writers :
           Range(RowsOfDict(conns[c].dict)) # Range(RowsOfDict(conns[d].dict))

(* the table after all the calls have committed                            *)
PostTable == OneAfterTheOther(PreTable, Writers)

(* track_matches after the first k lookups of reader c, when lookup i      *)
(* reads the table with all the rows of the calls in seen[i] and no row of *)
(* any other call                                                          *)
RECURSIVE Replay(_, _)
Replay(c, k) ==
    IF k = 0 THEN <<>>
    ELSE FetchLoop(Replay(c, k - 1), conns[c].sample[k],
                   Lookup(OneAfterTheOther(PreTable, conns[c].seen[k]),
                          conns[c].sample[k].hash_value))

TotalIn(track_matches, t) ==
    IF HasTrack(track_matches, t)
    THEN Len(track_matches[CHOOSE k \in 1..Len(track_matches) :
                               track_matches[k].track_id = t].time_diffs)
    ELSE 0

(* C19: every lookup of a match that runs beside ingest calls reads a      *)
(* table that holds all the rows of the calls committed before it and no   *)
(* row of the others, so what the match counts are committed rows, and     *)
(* when the match returns, the total_matches of every track lies between   *)
(* its values on the table before and on the table after the calls.        *)
C19_MatchDuringIngestion ==
    \A c \in Readers :
        /\ Len(conns[c].seen) = conns[c].next - 1
        /\ \A k \in 1..Len(conns[c].seen) :
               conns[c].seen[k] \subseteq Committed
        /\ conns[c].track_matches = Replay(c, Len(conns[c].seen))
        /\ \A t \in TrackIdSet :
               TotalIn(conns[c].track_matches, t)
                   <= TotalIn(TrackMatches(PostTable, conns[c].sample), t)
        /\ conns[c].pc = "returned" =>
               /\ conns[c].result
                      = SortedByConfidence(
                            MatchResults(conns[c].track_matches,
                                         conns[c].threshold))
               /\ \A t \in TrackIdSet :
                      TotalIn(TrackMatches(PreTable, conns[c].sample), t)
                          <= TotalIn(conns[c].track_matches, t)

C19_Witness ==
    \E c \in Readers, t \in TrackIdSet :
        /\ conns[c].pc = "returned"
        /\ conns[c].seen[1] = {}
        /\ conns[c].seen[Len(conns[c].seen)] # {}
        /\ TotalIn(TrackMatches(PreTable, conns[c].sample), t)
               < TotalIn(conns[c].track_matches, t)
        /\ TotalIn(conns[c].track_matches, t)
               < TotalIn(TrackMatches(PostTable, conns[c].sample), t)
        /\ conns[c].result # <<>>

(* the call of connection c failed on a storage error                      *)
Failed(c) == conns[c].pc = "raised" /\ conns[c].raised = StorageError

(* the table only changes when a call commits, and then by all its rows    *)
SingleCommit ==
    fingerprints' # fingerprints =>
        \E c \in Writers :
            /\ conns[c].pc = "committing"
            /\ conns'[c].pc = "returned"
            /\ fingerprints' = insert_fingerprints(fingerprints, conns[c].dict)

(* a failing step leaves the table as it was and ends the call: the error  *)
(* is the call's outcome and no later step retries it                      *)
FailureStep ==
    \A c \in Writers :
        /\ (~Failed(c) /\ Failed(c)') => fingerprints' = fingerprints
        /\ conns[c].pc = "raised" => conns'[c] = conns[c]

(* no row of a failed call is stored, unless a committed call holds it too *)
NoRowOfFailedCall ==
    \A c \in Writers :
        Failed(c) =>
            /\ conns[c].view = EmptyBag
            /\ lock.holder # c
            /\ BagToSet(fingerprints) \cap Range(RowsOfDict(conns[c].dict))
                   \subseteq BagToSet(PreTable) \cup TuplesOf(Committed)

(* C21: all-or-nothing ingestion: the rows of one insert_fingerprints call *)
(* (of every track of its mapping) reach the table together, at its one    *)
(* commit; when the call fails part-way on a storage error, the error is   *)
(* its outcome, nothing retries it, and the table is as before the call.   *)
C21_AllOrNothingIngestion ==
    []NoRowOfFailedCall /\ [][SingleCommit /\ FailureStep]_vars

C21_Witness ==
    \E c \in Writers :
        /\ Failed(c)
        /\ Len(conns[c].dict) > 1
        /\ conns[c].todo # <<>>
        /\ Len(conns[c].todo) < Len(RowsOfDict(conns[c].dict))
        /\ fingerprints = PreTable
        /\ PreTable # EmptyBag
        /\ ~(Range(RowsOfDict(conns[c].dict)) \subseteq BagToSet(PreTable))

====
